---- MODULE Spec2Model ----
(***************************************************************************)
(* The watchdog of src/watchdog.py: class Watchdog (a polling loop on a    *)
(* daemon thread, heartbeat(), start(), stop(), get_status()) and the      *)
(* module-level registry (_watchdog_instance with start_watchdog,          *)
(* stop_watchdog, get_watchdog_status, send_heartbeat).                    *)
(*                                                                         *)
(* The class takes no lock, so every method is a sequence of atomic steps  *)
(* (one per access to a shared attribute) that interleaves with the steps  *)
(* of the loop threads and of the other callers.                           *)
(*                                                                         *)
(* Time passes in seconds (Tick).  The code compares instants only through *)
(* differences with datetime.now(), so every instant is kept as its        *)
(* distance from the present: last_heartbeat holds how long ago            *)
(* `datetime.now()` was stored in it (None before the first heartbeat), a  *)
(* sleep and a join hold the time they still have to wait.  An elapsed     *)
(* time beyond the staleness threshold is kept as the threshold plus one:  *)
(* the one comparison of the code, `elapsed > 2 * interval`, is exact.     *)
(* time.sleep(n) returns at some time >= n seconds after the call.         *)
(***************************************************************************)
EXTENDS Integers, Sequences, FiniteSets

\* ---------------------------------------------------------------- bounds
MaxMonitors == 2
MaxLoops == 2
MaxCount == 3
Horizon == 16
NumControllers == 1
NumWorkers == 1

\* ------------------------------------------------------ program constants
JoinTimeout == 5
DefaultHeartbeatInterval == 30
DefaultMaxFailures == 3

\* The configurations handed to Watchdog(config).
Config(en, hi, mf, ar) ==
  [enabled |-> en, heartbeat_interval |-> hi, max_failures |-> mf,
   auto_restart |-> ar]

Configs ==
  {Config(FALSE, 1, 2, TRUE), Config(TRUE, 1, 2, TRUE),
   Config(TRUE, 1, 1, FALSE)}

\* The configuration of main(), the module's self-test.
MainConfig == Config(TRUE, 5, 2, TRUE)

Monitors == 1..MaxMonitors
Loops == 1..MaxLoops
\* The threads that call into the module: controllers make any call of the
\* API; workers of the monitored application only report liveness, with
\* send_heartbeat().
Controllers == 1..NumControllers
Callers == 1..(NumControllers + NumWorkers)

\* Python's None for last_heartbeat, and for _watchdog_instance / self.thread.
None == -1
NoInstance == 0
NoThread == 0

VARIABLES
  instance,      \* _watchdog_instance (NoInstance or a monitor)
  built,         \* number of Watchdog objects constructed so far
  mon,           \* the attributes of each Watchdog object
  loops,         \* the _monitor_loop threads launched so far
  call,          \* what each caller thread is executing
  ret,           \* what the call that returned in the last step returned
  restart_log,   \* logs/watchdog_restarts.log, one record per line
  run_triggers,  \* history: _trigger_restart calls since the last launch
  late,          \* history: a gap longer than heartbeat_interval occurred
  uptime         \* history: the seconds since the first loop was launched,
                 \* as far as the timed scenario counts them (TimedTick)

vars ==
  <<instance, built, mon, loops, call, ret, restart_log, run_triggers, late,
    uptime>>

\* ------------------------------------------------------------ the objects

\* A variant of __init__ that takes the construction for a first
\* heartbeat: `self.last_heartbeat = datetime.now()`.
NewWatchdogBeating(cfg) ==
  [enabled |-> cfg.enabled,
   heartbeat_interval |-> cfg.heartbeat_interval,
   max_failures |-> cfg.max_failures,
   auto_restart |-> cfg.auto_restart,
   failure_count |-> 0,
   last_heartbeat |-> 0,
   is_running |-> FALSE,
   thread |-> NoThread]

\* Watchdog.__init__: the attributes of a new object.
NewWatchdog(cfg) ==
  [enabled |-> cfg.enabled,
   heartbeat_interval |-> cfg.heartbeat_interval,
   max_failures |-> cfg.max_failures,
   auto_restart |-> cfg.auto_restart,
   failure_count |-> 0,
   last_heartbeat |-> None,
   is_running |-> FALSE,
   thread |-> NoThread]

\* A slot of mon that holds no object yet.
Unbuilt ==
  [enabled |-> FALSE, heartbeat_interval |-> 1, max_failures |-> 1,
   auto_restart |-> FALSE, failure_count |-> 0, last_heartbeat |-> None,
   is_running |-> FALSE, thread |-> NoThread]

\* A loop thread: the Watchdog it runs _monitor_loop of, where it is in the
\* loop, the seconds left of its sleep, and the failure_count it loaded for
\* `self.failure_count += 1`.
NoLoop == [m |-> 0, pc |-> "none", wake |-> 0, tmp |-> 0]

LoopAt(m, p) == [m |-> m, pc |-> p, wake |-> 0, tmp |-> 0]

\* threading.Thread.is_alive()
IsAlive(l) == loops[l].pc \notin {"none", "stopped", "escalated"}

\* The threads launched so far take the slots 1..Launched.
Launched == Cardinality({l \in Loops : loops[l].pc # "none"})

\* A caller thread between calls, and inside a call.
\* (a and b are the call's local values; h is history kept for the checks.)
Idle == [op |-> "idle", pc |-> "idle", m |-> 0, a |-> 0, b |-> 0, h |-> 0]

InCall(op, pc, m, a, b, h) ==
  [op |-> op, pc |-> pc, m |-> m, a |-> a, b |-> b, h |-> h]

\* The dictionary get_status() builds.
Snapshot(en, run, fc, lh, mf, ar, hi) ==
  [enabled |-> en, running |-> run, failure_count |-> fc,
   last_heartbeat |-> lh, max_failures |-> mf, auto_restart |-> ar,
   heartbeat_interval |-> hi]

\* A variant of the fixed dictionary with the defaults of Watchdog():
\* enabled true.
ConstructorDefaultsSnapshot ==
  Snapshot(TRUE, FALSE, 0, None, DefaultMaxFailures, TRUE,
           DefaultHeartbeatInterval)

\* get_watchdog_status() when no Watchdog was ever constructed.
NotStartedSnapshot ==
  Snapshot(FALSE, FALSE, 0, None, DefaultMaxFailures, TRUE,
           DefaultHeartbeatInterval)

\* What a call returned: a boolean (ok), a Watchdog or None (inst), or a
\* status dictionary (snap; torn is history: the dictionary holds the
\* last_heartbeat of a heartbeat and the failure_count from before it).
Returned(op, m, ok, inst, snap, torn) ==
  [op |-> op, m |-> m, ok |-> ok, inst |-> inst, snap |-> snap, torn |-> torn]

NoReturn == Returned("none", 0, FALSE, NoInstance, NotStartedSnapshot, FALSE)

RetBool(op, m, ok) ==
  Returned(op, m, ok, NoInstance, NotStartedSnapshot, FALSE)

RetInst(op, m, inst) ==
  Returned(op, m, inst # NoInstance, inst, NotStartedSnapshot, FALSE)

RetSnap(op, m, snap, torn) == Returned(op, m, TRUE, NoInstance, snap, torn)

Init ==
  /\ instance = NoInstance
  /\ built = 0
  /\ mon = [m \in Monitors |-> Unbuilt]
  /\ loops = [l \in Loops |-> NoLoop]
  /\ call = [c \in Callers |-> Idle]
  /\ ret = NoReturn
  /\ restart_log = <<>>
  /\ run_triggers = [m \in Monitors |-> 0]
  /\ late = [m \in Monitors |-> FALSE]
  /\ uptime = 0

\* ------------------------------------------------------- Watchdog.start

\* A variant of start() without the check of `enabled`.
StartRefusedNever(m) == FALSE

\* `if not self.enabled: return False`
StartRefused(m) == ~mon[m].enabled

\* `if self.is_running: return True`
StartNoop(m) == mon[m].is_running

\* The rest of start(), entered with the flag seen false: the caller goes on
\* to set the flag and launch the thread.  A launch needs a free thread slot,
\* counting the launches other callers are about to make.
Pending == Cardinality({c \in Callers : call[c].pc = "launch"})

\* The threads launched, or about to be, for the Watchdog m.
ThreadsOf(m) ==
  Cardinality({l \in Loops : loops[l].m = m})
  + Cardinality({c \in Callers : call[c].pc = "launch" /\ call[c].m = m})

\* The model explores several threads on one Watchdog, and several Watchdog
\* objects with one thread each.
CanLaunch(m) ==
  /\ Launched + Pending < MaxLoops
  /\ built > 1 => ThreadsOf(m) = 0

CanConstruct ==
  /\ built < MaxMonitors
  /\ \A m \in Monitors : ThreadsOf(m) <= 1

\* start() up to its return or to the point where it found is_running false.
StartBody(c, m, op) ==
  IF StartRefused(m)
    THEN /\ ret' = IF op = "start" THEN RetBool(op, m, FALSE)
                 ELSE RetInst(op, m, NoInstance)
         /\ call' = [call EXCEPT ![c] = Idle]
    ELSE IF StartNoop(m)
      THEN /\ ret' = IF op = "start" THEN RetBool(op, m, TRUE)
                   ELSE RetInst(op, m, m)
           /\ call' = [call EXCEPT ![c] = Idle]
      ELSE /\ CanLaunch(m)
           /\ ret' = NoReturn
           /\ call' = [call EXCEPT ![c] = InCall(op, "launch", m, 0, 0, 0)]

\* A caller invokes start() on a Watchdog it holds.
Start(c, m) ==
  /\ call[c] = Idle
  /\ m = instance
  /\ StartBody(c, m, "start")
  /\ UNCHANGED uptime
  /\ UNCHANGED <<instance, built, mon, loops, restart_log,
                 run_triggers, late>>

\* The slot the next thread of m takes.
NextLoop == Launched + 1

\* `self.is_running = True; self.thread = Thread(...); self.thread.start()`
\* and the return of start() or of start_watchdog().
StartLaunch(c) ==
  LET m == call[c].m
      l == NextLoop IN
  /\ call[c].pc = "launch"
  /\ mon' = [mon EXCEPT ![m].is_running = TRUE, ![m].thread = l]
  /\ loops' = [loops EXCEPT ![l] = LoopAt(m, "while")]
  /\ run_triggers' = [run_triggers EXCEPT ![m] = 0]
  /\ ret' = IF call[c].op = "start" THEN RetBool("start", m, TRUE)
             ELSE RetInst(call[c].op, m, m)
  /\ call' = [call EXCEPT ![c] = Idle]
  /\ UNCHANGED uptime
  /\ UNCHANGED <<instance, built, restart_log, late>>

\* -------------------------------------------------------- Watchdog.stop

\* A variant of stop() without the check of `is_running`.
StopNoopNever(m) == FALSE

\* `if not self.is_running: return True`
StopNoop(m) == ~mon[m].is_running

\* stop() up to its return or to the point where it found is_running true.
StopBody(c, m, op) ==
  IF StopNoop(m)
    THEN /\ ret' = RetBool(op, m, TRUE)
         /\ call' = [call EXCEPT ![c] = Idle]
    ELSE /\ ret' = NoReturn
         /\ call' = [call EXCEPT ![c] = InCall(op, "stop_set", m, 0, 0, 0)]

Stop(c, m) ==
  /\ call[c] = Idle
  /\ m = instance
  /\ StopBody(c, m, "stop")
  /\ UNCHANGED uptime
  /\ UNCHANGED <<instance, built, mon, loops, restart_log,
                 run_triggers, late>>

\* A variant of stop() that leaves the flag as it is.
StoppedFlagStillSet == TRUE

\* The value stop() writes to is_running.
StoppedFlag == FALSE

\* `self.is_running = False`, then `if self.thread and self.thread.is_alive()`:
\* either the join begins, with 5 seconds to go, or stop() returns True.
StopSet(c) ==
  LET m == call[c].m
      t == mon[m].thread IN
  /\ call[c].pc = "stop_set"
  /\ mon' = [mon EXCEPT ![m].is_running = StoppedFlag]
  /\ IF t # NoThread /\ IsAlive(t)
       THEN /\ call' = [call EXCEPT ![c] =
                          InCall(call[c].op, "join", m, t, JoinTimeout, 0)]
            /\ ret' = NoReturn
       ELSE /\ call' = [call EXCEPT ![c] = Idle]
            /\ ret' = RetBool(call[c].op, m, TRUE)
  /\ UNCHANGED uptime
  /\ UNCHANGED <<instance, built, loops, restart_log,
                 run_triggers, late>>

\* `self.thread.join(timeout=5)` returns: the thread ended or the timeout
\* (b, the seconds left of it) passed; stop() returns True either way.
StopJoin(c) ==
  LET m == call[c].m IN
  /\ call[c].pc = "join"
  /\ ~IsAlive(call[c].a) \/ call[c].b = 0
  /\ call' = [call EXCEPT ![c] = Idle]
  /\ ret' = RetBool(call[c].op, m, TRUE)
  /\ UNCHANGED uptime
  /\ UNCHANGED <<instance, built, mon, loops, restart_log,
                 run_triggers, late>>

\* --------------------------------------------------- Watchdog.heartbeat

\* `self.last_heartbeat = datetime.now()`
\* (history: a get_status() of m that has read failure_count and not yet
\* last_heartbeat notes in h that it will read the instant of a heartbeat
\* whose reset of failure_count it did not see.)
HeartbeatBody(c, m, op) ==
  /\ mon' = [mon EXCEPT ![m].last_heartbeat = 0]
  /\ call' = [d \in Callers |->
                IF d = c THEN InCall(op, "hb_reset", m, 0, 0, 0)
                ELSE IF call[d].pc = "gs_beat" /\ call[d].m = m
                  THEN [call[d] EXCEPT !.h = 1]
                  ELSE call[d]]
  /\ ret' = NoReturn

Heartbeat(c, m) ==
  /\ call[c] = Idle
  /\ m = instance
  /\ HeartbeatBody(c, m, "heartbeat")
  /\ UNCHANGED uptime
  /\ UNCHANGED <<instance, built, loops, restart_log,
                 run_triggers, late>>

\* The value heartbeat() writes to failure_count.
ResetCount == 0

\* `self.failure_count = 0; return True`
HeartbeatReset(c) ==
  LET m == call[c].m IN
  /\ call[c].pc = "hb_reset"
  /\ mon' = [mon EXCEPT ![m].failure_count = ResetCount]
  /\ call' = [call EXCEPT ![c] = Idle]
  /\ ret' = RetBool(call[c].op, m, TRUE)
  /\ UNCHANGED uptime
  /\ UNCHANGED <<instance, built, loops, restart_log,
                 run_triggers, late>>

\* -------------------------------------------------- Watchdog.get_status

\* A heartbeat() of m has written last_heartbeat and not yet failure_count.
MidHeartbeat(m) ==
  \E d \in Callers : call[d].pc = "hb_reset" /\ call[d].m = m

\* The dictionary is built entry by entry: 'running' reads is_running and
\* 'failure_count' reads failure_count (one step, kept in a and b) ...
GetStatusBody(c, m, op) ==
  /\ call' = [call EXCEPT ![c] =
                InCall(op, "gs_beat", m, IF mon[m].is_running THEN 1 ELSE 0,
                       mon[m].failure_count,
                       IF MidHeartbeat(m) THEN 1 ELSE 0)]
  /\ ret' = NoReturn

GetStatus(c, m) ==
  /\ call[c] = Idle
  /\ m = instance
  /\ GetStatusBody(c, m, "get_status")
  /\ UNCHANGED uptime
  /\ UNCHANGED <<instance, built, mon, loops, restart_log, run_triggers, late>>

\* ... 'last_heartbeat' reads last_heartbeat, and the dictionary is returned.
\* It is torn when it pairs the instant of a heartbeat (h) with a
\* failure_count that is not the one the heartbeat writes.
GetStatusBeat(c) ==
  LET m == call[c].m IN
  /\ call[c].pc = "gs_beat"
  /\ call' = [call EXCEPT ![c] = Idle]
  /\ ret' = RetSnap(call[c].op, m,
                    Snapshot(mon[m].enabled, call[c].a = 1, call[c].b,
                             mon[m].last_heartbeat, mon[m].max_failures,
                             mon[m].auto_restart, mon[m].heartbeat_interval),
                    call[c].h = 1 /\ call[c].b # ResetCount)
  /\ UNCHANGED uptime
  /\ UNCHANGED <<instance, built, mon, loops, restart_log,
                 run_triggers, late>>

\* ------------------------------------------------ Watchdog._monitor_loop

\* `if self.last_heartbeat:`
HasHeartbeat(m) == mon[m].last_heartbeat # None

\* `datetime.now() - self.last_heartbeat`
Elapsed(m) == mon[m].last_heartbeat

\* A variant of the staleness test with one interval for two, and >= for >.
StaleAfterOneInterval(m) == mon[m].last_heartbeat >= mon[m].heartbeat_interval

\* `time_since_heartbeat > timedelta(seconds=self.heartbeat_interval * 2)`
Stale(m) == Elapsed(m) > mon[m].heartbeat_interval * 2

\* `time.sleep(self.heartbeat_interval)`
Sleeping(m) ==
  [m |-> m, pc |-> "sleeping", wake |-> mon[m].heartbeat_interval,
   tmp |-> 0]

\* A variant of the iteration that takes a missing heartbeat for a stale one.
LoopCheckNoneIsStale(l) ==
  LET m == loops[l].m IN
  /\ loops[l].pc = "while"
  /\ loops' = [loops EXCEPT ![l] =
                 IF ~mon[m].is_running THEN LoopAt(m, "stopped")
                 ELSE IF ~HasHeartbeat(m) \/ Stale(m) THEN LoopAt(m, "load")
                 ELSE Sleeping(m)]
  /\ ret' = NoReturn
  /\ UNCHANGED uptime
  /\ UNCHANGED <<instance, built, mon, call, restart_log, run_triggers, late>>

\* `while self.is_running:` and the staleness check of the iteration: the
\* thread ends when the flag is false, goes on to the increment when the
\* heartbeat is stale, and sleeps otherwise.  (The reads of is_running, of
\* the clock and of last_heartbeat are one step: a write that falls between
\* them gives what it gives when it falls before or after them.  Nothing in
\* the `try` block raises, so the `except` branch is never taken.)
LoopCheck(l) ==
  LET m == loops[l].m IN
  /\ loops[l].pc = "while"
  /\ loops' = [loops EXCEPT ![l] =
                 IF ~mon[m].is_running THEN LoopAt(m, "stopped")
                 ELSE IF HasHeartbeat(m) /\ Stale(m) THEN LoopAt(m, "load")
                 ELSE Sleeping(m)]
  /\ ret' = NoReturn
  /\ UNCHANGED uptime
  /\ UNCHANGED <<instance, built, mon, call, restart_log, run_triggers, late>>

\* `self.failure_count += 1` reads the attribute ...
LoopLoad(l) ==
  LET m == loops[l].m IN
  /\ loops[l].pc = "load"
  /\ loops' = [loops EXCEPT ![l] =
                 [m |-> m, pc |-> "store", wake |-> 0,
                  tmp |-> mon[m].failure_count]]
  /\ ret' = NoReturn
  /\ UNCHANGED uptime
  /\ UNCHANGED <<instance, built, mon, call, restart_log,
                 run_triggers, late>>

\* A variant of the increment that counts a stale episode once.
IncrementedOncePerEpisode(n) == IF n = 0 THEN 1 ELSE n

\* ... adds one ...
Incremented(n) == n + 1

\* ... and writes it back (while the count stays within the model's bound).
LoopStore(l) ==
  LET m == loops[l].m IN
  /\ loops[l].pc = "store"
  /\ Incremented(loops[l].tmp) <= MaxCount
  /\ mon' = [mon EXCEPT ![m].failure_count = Incremented(loops[l].tmp)]
  /\ loops' = [loops EXCEPT ![l] = LoopAt(m, "test")]
  /\ ret' = NoReturn
  /\ UNCHANGED uptime
  /\ UNCHANGED <<instance, built, call, restart_log,
                 run_triggers, late>>

\* `if self.failure_count >= self.max_failures:`
Escalates(m) == mon[m].failure_count >= mon[m].max_failures

\* A variant of the threshold test with the `break` under
\* `if self.auto_restart:`.
LoopTestBreakUnderIf(l) ==
  LET m == loops[l].m IN
  /\ loops[l].pc = "test"
  /\ loops' = [loops EXCEPT ![l] =
                 IF Escalates(m) /\ mon[m].auto_restart
                   THEN LoopAt(m, "trigger")
                   ELSE Sleeping(m)]
  /\ ret' = NoReturn
  /\ UNCHANGED uptime
  /\ UNCHANGED <<instance, built, mon, call, restart_log,
                 run_triggers, late>>

\* The threshold test: `if self.auto_restart: self._trigger_restart()` and
\* `break`, or the sleep.  The break leaves is_running as it is.
LoopTest(l) ==
  LET m == loops[l].m IN
  /\ loops[l].pc = "test"
  /\ loops' = [loops EXCEPT ![l] =
                 IF Escalates(m)
                   THEN LoopAt(m, IF mon[m].auto_restart THEN "trigger"
                               ELSE "escalated")
                   ELSE Sleeping(m)]
  /\ ret' = NoReturn
  /\ UNCHANGED uptime
  /\ UNCHANGED <<instance, built, mon, call, restart_log,
                 run_triggers, late>>

\* The record _trigger_restart builds (without its two instants, timestamp
\* and last_heartbeat).
RestartEvent(m) ==
  [reason |-> "watchdog_max_failures",
   failure_count |-> mon[m].failure_count]

\* _save_restart_log appends the record, or raises and swallows the error
\* (json and Path are bound only under `if __name__ == "__main__":`, so in
\* an imported module the write always ends in a NameError; run as a script
\* it fails when the file cannot be opened).
SavedLogs(m) == {restart_log, Append(restart_log, RestartEvent(m))}

\* _trigger_restart, then the `break` of the loop.
LoopTrigger(l) ==
  LET m == loops[l].m IN
  /\ loops[l].pc = "trigger"
  /\ restart_log' \in SavedLogs(m)
  /\ run_triggers' = [run_triggers EXCEPT ![m] = @ + 1]
  /\ loops' = [loops EXCEPT ![l] = LoopAt(m, "escalated")]
  /\ ret' = NoReturn
  /\ UNCHANGED uptime
  /\ UNCHANGED <<instance, built, mon, call, late>>

\* The sleep ends.
LoopWake(l) ==
  LET m == loops[l].m IN
  /\ loops[l].pc = "sleeping"
  /\ loops[l].wake = 0
  /\ loops' = [loops EXCEPT ![l] = LoopAt(m, "while")]
  /\ ret' = NoReturn
  /\ UNCHANGED uptime
  /\ UNCHANGED <<instance, built, mon, call, restart_log,
                 run_triggers, late>>

\* ---------------------------------------------------------- the registry

\* A variant of start_watchdog() without the check of the running instance.
RegistryRunningNever == FALSE

\* A variant of the registry's test without the check of is_running.
RegistryHasInstance == instance # NoInstance

\* `if _watchdog_instance and _watchdog_instance.is_running:`
RegistryRunning == instance # NoInstance /\ mon[instance].is_running

\* A Watchdog that no thread runs or is calling.
Unreferenced(m) ==
  /\ \A l \in Loops : loops[l].m = m => ~IsAlive(l)
  /\ \A c \in Callers : call[c].m # m

\* The Watchdog objects after `_watchdog_instance = Watchdog(config)`: the
\* new one, and the replaced one freed when nothing refers to it any more.
Replaced(cfg) ==
  [m \in Monitors |->
     IF m = built + 1 THEN NewWatchdog(cfg)
     ELSE IF m = instance /\ Unreferenced(m) THEN Unbuilt
     ELSE mon[m]]

\* start_watchdog(config): the running instance is returned as it is;
\* otherwise a new Watchdog replaces it and is started.
StartWatchdog(c, cfg) ==
  /\ call[c] = Idle
  /\ IF RegistryRunning
       THEN /\ ret' = RetInst("start_watchdog", instance, instance)
            /\ UNCHANGED <<instance, built, mon, call, late, run_triggers>>
       ELSE /\ CanConstruct
            /\ cfg.enabled => Launched + Pending < MaxLoops
            /\ built' = built + 1
            /\ instance' = built + 1
            /\ mon' = Replaced(cfg)
            /\ late' = [m \in Monitors |-> late[m] /\ mon'[m] # Unbuilt]
            /\ run_triggers' =
                 [m \in Monitors |->
                    IF mon'[m] # Unbuilt THEN run_triggers[m] ELSE 0]
            /\ IF ~cfg.enabled
                 THEN /\ ret' = RetInst("start_watchdog", built + 1,
                                         NoInstance)
                      /\ call' = call
                 ELSE /\ ret' = NoReturn
                      /\ call' = [call EXCEPT ![c] =
                                    InCall("start_watchdog", "launch",
                                           built + 1, 0, 0, 0)]
  /\ UNCHANGED uptime
  /\ UNCHANGED <<loops, restart_log>>

\* stop_watchdog()
StopWatchdog(c) ==
  /\ call[c] = Idle
  /\ IF instance # NoInstance
       THEN StopBody(c, instance, "stop")
       ELSE /\ ret' = RetBool("stop_watchdog", 0, TRUE)
            /\ call' = call
  /\ UNCHANGED uptime
  /\ UNCHANGED <<instance, built, mon, loops, restart_log,
                 run_triggers, late>>

\* get_watchdog_status()
GetWatchdogStatus(c) ==
  /\ call[c] = Idle
  /\ IF instance # NoInstance
       THEN GetStatusBody(c, instance, "get_status")
       ELSE /\ ret' = RetSnap("get_watchdog_status", 0,
                               NotStartedSnapshot, FALSE)
            /\ call' = call
  /\ UNCHANGED uptime
  /\ UNCHANGED <<instance, built, mon, loops, restart_log,
                 run_triggers, late>>

\* send_heartbeat()
SendHeartbeat(c) ==
  /\ call[c] = Idle
  /\ IF RegistryRunning
       THEN HeartbeatBody(c, instance, "send_heartbeat")
       ELSE /\ ret' = RetBool("send_heartbeat", 0, FALSE)
            /\ UNCHANGED <<mon, call>>
  /\ UNCHANGED uptime
  /\ UNCHANGED <<instance, built, loops, restart_log,
                 run_triggers, late>>

\* ---------------------------------------------------------------- time

\* One more second on an elapsed time, kept exact up to the threshold.
Older(m, e) ==
  IF e = None \/ e > mon[m].heartbeat_interval * 2 THEN e ELSE e + 1

\* One second less to wait.
Less(n) == IF n > 0 THEN n - 1 ELSE 0

\* A second passes.  late[m] records that more than heartbeat_interval has
\* passed since the last heartbeat of m.
Pass ==
  /\ mon' = [m \in Monitors |->
               [mon[m] EXCEPT !.last_heartbeat = Older(m, @)]]
  /\ loops' = [l \in Loops |-> [loops[l] EXCEPT !.wake = Less(@)]]
  /\ call' = [c \in Callers |->
                IF call[c].pc = "join" THEN [call[c] EXCEPT !.b = Less(@)]
                ELSE call[c]]
  /\ late' = [m \in Monitors |->
                \/ late[m]
                \/ /\ mon[m].last_heartbeat # None
                   /\ mon[m].last_heartbeat + 1 > mon[m].heartbeat_interval]
  /\ ret' = NoReturn
  /\ UNCHANGED <<instance, built, restart_log, run_triggers>>

Tick == Pass /\ UNCHANGED uptime

Next ==
  \/ Tick
  \/ \E c \in Controllers, cfg \in Configs : StartWatchdog(c, cfg)
  \/ \E c \in Controllers : StopWatchdog(c)
  \/ \E c \in Controllers : GetWatchdogStatus(c)
  \/ \E c \in Callers : SendHeartbeat(c)
  \/ \E c \in Controllers, m \in Monitors : Start(c, m)
  \/ \E c \in Controllers, m \in Monitors : Stop(c, m)
  \/ \E c \in Controllers, m \in Monitors : Heartbeat(c, m)
  \/ \E c \in Controllers, m \in Monitors : GetStatus(c, m)
  \/ \E c \in Callers : StartLaunch(c)
  \/ \E c \in Callers : StopSet(c)
  \/ \E c \in Callers : StopJoin(c)
  \/ \E c \in Callers : HeartbeatReset(c)
  \/ \E c \in Callers : GetStatusBeat(c)
  \/ \E l \in Loops : LoopCheck(l)
  \/ \E l \in Loops : LoopLoad(l)
  \/ \E l \in Loops : LoopStore(l)
  \/ \E l \in Loops : LoopTest(l)
  \/ \E l \in Loops : LoopTrigger(l)
  \/ \E l \in Loops : LoopWake(l)

Spec == Init /\ [][Next]_vars

\* ------------------------------------------------- the timed scenario
\* One thread starts the watchdog with the configuration of main() and then
\* only asks for its status; nobody sends a heartbeat.  The seconds since
\* the launch of the loop are counted, up to Horizon.
TimedTick ==
  /\ uptime < Horizon
  /\ Pass
  /\ uptime' = IF Launched > 0 THEN uptime + 1 ELSE uptime

NextTimed ==
  \/ TimedTick
  \/ StartWatchdog(1, MainConfig)
  \/ StartLaunch(1)
  \/ GetWatchdogStatus(1)
  \/ GetStatusBeat(1)
  \/ \E l \in Loops : LoopCheck(l)
  \/ \E l \in Loops : LoopWake(l)

SpecTimed == Init /\ [][NextTimed]_vars

\* ------------------------------------------- stopping, with fair scheduling
\* The registry's functions only: a stopped instance is never started again
\* (start_watchdog() replaces it).  Every thread is scheduled again and
\* again, and time goes on.
LoopStep(l) ==
  \/ LoopCheck(l)
  \/ LoopLoad(l)
  \/ LoopStore(l)
  \/ LoopTest(l)
  \/ LoopTrigger(l)
  \/ LoopWake(l)

CallStep(c) ==
  \/ StartLaunch(c)
  \/ StopSet(c)
  \/ StopJoin(c)
  \/ HeartbeatReset(c)

NextStopping ==
  \/ Tick
  \/ \E c \in Controllers, cfg \in Configs : StartWatchdog(c, cfg)
  \/ \E c \in Controllers : StopWatchdog(c)
  \/ \E c \in Callers : SendHeartbeat(c)
  \/ \E c \in Callers : CallStep(c)
  \/ \E l \in Loops : LoopStep(l)

SpecStopping ==
  /\ Init
  /\ [][NextStopping]_vars
  /\ WF_vars(Tick)
  /\ \A c \in Callers : WF_vars(CallStep(c))
  /\ \A l \in Loops : WF_vars(LoopStep(l))

\* ================================================================ claims

\* A slot of mon that holds a Watchdog object.
Built(m) == mon[m] # Unbuilt

\* The pcs of a loop thread that found the heartbeat stale.
FoundStale == {"load", "store", "test", "trigger", "escalated"}

\* --------------------------------------------------------------------- C1
\* C1: when the polling loop escalates, the Monitor becomes not-running: in
\* every state where the latest loop thread of a Monitor has left the loop
\* through the escalation path, is_running is false (and so a status
\* dictionary reports running=false).
C1_EscalatedNotRunning ==
  \A m \in Monitors :
    (mon[m].thread # NoThread /\ loops[mon[m].thread].pc = "escalated")
      => ~mon[m].is_running

\* --------------------------------------------------------------------- C2
\* C2: the escalation path fires at most once per Monitor run: since the
\* start() that launched the latest loop of a Monitor, _trigger_restart was
\* invoked at most once on it.
C2_OneTriggerPerRun == \A m \in Monitors : run_triggers[m] <= 1

\* --------------------------------------------------------------------- C3
\* C3: a heartbeat's reset cannot be undone by a loop iteration working from
\* stale data: whenever no heartbeat() is between its two writes and the
\* recorded heartbeat is not stale (elapsed <= 2 * heartbeat_interval),
\* failure_count is 0.
C3_FreshHeartbeatZeroCount ==
  \A m \in Monitors :
    (/\ mon[m].last_heartbeat # None
     /\ mon[m].last_heartbeat <= 2 * mon[m].heartbeat_interval
     /\ \A c \in Callers : ~(call[c].pc = "hb_reset" /\ call[c].m = m))
      => mon[m].failure_count = 0

\* --------------------------------------------------------------------- C4
\* C4: a get_status() dictionary never holds the last_heartbeat written by a
\* heartbeat() together with the failure_count from before that heartbeat.
C4_NoTornStatus == ret.op = "get_status" => ~ret.torn

\* --------------------------------------------------------------------- C5
\* C5: for a Watchdog constructed with enabled=false, start() returns false,
\* no polling loop is launched or about to be, and is_running is false in
\* every state, whatever calls are made on it; start_watchdog() with such a
\* configuration returns None.
C5_DisabledNeverRuns ==
  /\ \A m \in Monitors :
       (Built(m) /\ ~mon[m].enabled) =>
         /\ ~mon[m].is_running
         /\ mon[m].thread = NoThread
         /\ \A l \in Loops : loops[l].m # m
         /\ \A c \in Callers : ~(call[c].pc = "launch" /\ call[c].m = m)
  /\ (ret.op \in {"start", "start_watchdog"} /\ ret.m # 0
      /\ Built(ret.m) /\ ~mon[ret.m].enabled)
       => (~ret.ok /\ ret.inst = NoInstance)

\* start() has just returned on a Watchdog constructed with enabled=false.
C5_Witness ==
  /\ ret.op = "start"
  /\ Built(ret.m)
  /\ ~mon[ret.m].enabled
  /\ ~ret.ok

\* --------------------------------------------------------------------- C6
\* C6: as long as the heartbeats of a Monitor have never been more than
\* heartbeat_interval apart (late is false), failure_count is 0, no loop
\* thread of the Monitor has found the heartbeat stale, and none has left
\* the loop through the escalation path.
C6_TimelyHeartbeatsKeepZero ==
  \A m \in Monitors :
    (Built(m) /\ ~late[m]) =>
      /\ mon[m].failure_count = 0
      /\ \A l \in Loops : loops[l].m = m => loops[l].pc \notin FoundStale

\* A running loop has just polled a Monitor whose latest heartbeat is exactly
\* heartbeat_interval old, all heartbeats having been timely.
C6_Witness ==
  \E l \in Loops :
    LET m == loops[l].m IN
    /\ loops[l].pc = "sleeping"
    /\ loops[l].wake = mon[m].heartbeat_interval
    /\ mon[m].is_running
    /\ mon[m].last_heartbeat = mon[m].heartbeat_interval
    /\ ~late[m]

\* --------------------------------------------------------------------- C7
\* C7: counting is tick-based.  In every step of a loop thread: the
\* iteration goes on to the increment exactly when the Monitor is running
\* and a recorded heartbeat is more than 2 * heartbeat_interval old, and
\* otherwise leaves failure_count as it is; the increment writes the
\* failure_count it read plus exactly 1, whatever the count was; and the
\* loop escalates at that tick exactly when failure_count has reached
\* max_failures.
C7_Step(l) ==
  LET m == loops[l].m IN
  /\ (loops[l].pc = "while" /\ loops'[l].pc # "while") =>
       /\ mon'[m].failure_count = mon[m].failure_count
       /\ loops'[l].pc = "load" <=>
            (/\ mon[m].is_running
             /\ mon[m].last_heartbeat # None
             /\ mon[m].last_heartbeat > 2 * mon[m].heartbeat_interval)
  /\ (loops[l].pc = "load" /\ loops'[l].pc = "store") =>
       loops'[l].tmp = mon[m].failure_count
  /\ (loops[l].pc = "store" /\ loops'[l].pc = "test") =>
       mon'[m].failure_count = loops[l].tmp + 1
  /\ (loops[l].pc = "test" /\ loops'[l].pc # "test") =>
       (loops'[l].pc \in {"trigger", "escalated"} <=>
          mon[m].failure_count >= mon[m].max_failures)

C7_TickBasedCounting == [][\A l \in Loops : C7_Step(l)]_vars

\* The only loop thread of a Monitor with max_failures = 2 escalates with
\* failure_count = 2: two ticks in a row counted the same stale episode.
C7_Witness ==
  \E l \in Loops :
    LET m == loops[l].m IN
    /\ loops[l].pc = "trigger"
    /\ mon[m].max_failures = 2
    /\ mon[m].failure_count = 2
    /\ \A k \in Loops : loops[k].m = m => k = l

\* --------------------------------------------------------------------- C8
\* C8 as the specification states it: with the configuration
\* {enabled, heartbeat_interval 5, max_failures 2, auto_restart} started
\* through start_watchdog() and no heartbeat ever sent, the loop detects
\* staleness: a poll made more than 2 * 5 seconds after the launch leaves
\* failure_count >= 1.
C8_SilenceDetected ==
  \A l \in Loops :
    (/\ loops[l].pc = "sleeping"
     /\ loops[l].wake = mon[loops[l].m].heartbeat_interval
     /\ uptime > 2 * mon[loops[l].m].heartbeat_interval)
      => mon[loops[l].m].failure_count >= 1

\* C8 as the code has it: with that configuration started through
\* start_watchdog() and no heartbeat ever sent, the loop never detects
\* staleness: failure_count stays 0, no RestartEvent is appended, the loop
\* keeps polling, and get_watchdog_status() reports running=true and
\* failure_count=0.
C8_SilenceUndetected ==
  /\ \A m \in Monitors : mon[m].failure_count = 0
  /\ restart_log = <<>>
  /\ \A l \in Loops : loops[l].pc \in {"none", "while", "sleeping"}
  /\ \A m \in Monitors : mon[m].thread # NoThread => mon[m].is_running
  /\ ret.op = "get_status" =>
       (ret.snap.running /\ ret.snap.failure_count = 0)

\* Horizon seconds after the launch the loop has just polled, and
\* get_watchdog_status() returns.
C8_Witness ==
  /\ uptime = Horizon
  /\ uptime > 3 * MainConfig.heartbeat_interval
  /\ ret.op = "get_status"
  /\ \E l \in Loops :
       /\ loops[l].pc = "sleeping"
       /\ loops[l].wake = MainConfig.heartbeat_interval

\* --------------------------------------------------------------------- C9
\* C9: stop() always returns true; a stop() that finds is_running false
\* returns at once and changes no attribute of any Monitor, no thread and
\* nothing of the registry; a stop() that finds it true leaves it false;
\* is_running becomes true again only by a start() launching a loop; and
\* get_status() reports as `running` the is_running it reads.
C9_Step ==
  /\ ret'.op \in {"stop", "stop_watchdog"} => ret'.ok
  /\ (call' = call /\ ret'.op \in {"stop", "stop_watchdog"}) =>
       /\ ret'.op = "stop" => ~mon[ret'.m].is_running
       /\ UNCHANGED <<instance, built, mon, loops, restart_log>>
  /\ \A c \in Callers :
       /\ (call[c] = Idle /\ call'[c].pc = "stop_set") =>
            mon[call'[c].m].is_running
       /\ (call[c].pc = "stop_set" /\ call'[c].pc # "stop_set") =>
            ~mon'[call[c].m].is_running
       /\ (call[c] = Idle /\ call'[c].pc = "gs_beat") =>
            (call'[c].a = 1 <=> mon[call'[c].m].is_running)
       /\ (call[c].pc = "gs_beat" /\ call'[c] = Idle) =>
            (ret'.snap.running <=> call[c].a = 1)
  /\ \A m \in Monitors :
       (~mon[m].is_running /\ mon'[m].is_running) =>
         \E c \in Callers :
           call[c].pc = "launch" /\ call[c].m = m /\ call'[c] = Idle

C9_StopIdempotent == [][C9_Step]_vars

\* stop() has just returned on a Monitor that was started, and its loop has
\* ended.
C9_Witness ==
  /\ ret.op = "stop"
  /\ ret.ok
  /\ mon[ret.m].thread # NoThread
  /\ loops[mon[ret.m].thread].pc = "stopped"
  /\ ~mon[ret.m].is_running

\* -------------------------------------------------------------------- C10
\* C10: a start_watchdog() call made while the registry's Monitor has
\* is_running true returns that instance at once, whatever the config
\* argument: it constructs no Monitor, launches no loop and changes no
\* attribute (failure_count and last_heartbeat among them).
C10_Step ==
  LET running == instance # NoInstance /\ mon[instance].is_running IN
  /\ (running /\ call' = call /\ ret'.op = "start_watchdog") =>
       /\ ret'.inst = instance
       /\ UNCHANGED <<instance, built, mon, loops, restart_log>>
  /\ \A c \in Callers :
       (call[c] = Idle /\ call'[c].op = "start_watchdog") => ~running

C10_StartWatchdogIdempotent == [][C10_Step]_vars

\* start_watchdog() has just returned the running instance, whose loop has
\* already counted a failure.
C10_Witness ==
  /\ ret.op = "start_watchdog"
  /\ ret.inst # NoInstance
  /\ ret.inst = instance
  /\ mon[instance].is_running
  /\ mon[instance].failure_count > 0

\* -------------------------------------------------------------------- C11
\* C11: a send_heartbeat() call made while no Monitor is running (no
\* instance, or an instance whose is_running is false) returns false at once
\* and changes no attribute of any Monitor; a call proceeds only when the
\* registry's Monitor is running, records the heartbeat on it
\* (last_heartbeat = now, then failure_count = 0) and returns true.
C11_Step ==
  LET running == instance # NoInstance /\ mon[instance].is_running IN
  /\ (call' = call /\ ret'.op = "send_heartbeat") =>
       /\ ~ret'.ok
       /\ ~running
       /\ UNCHANGED <<instance, built, mon, loops, restart_log>>
  /\ \A c \in Callers :
       /\ (call[c] = Idle /\ call'[c].op = "send_heartbeat") =>
            /\ running
            /\ call'[c].m = instance
            /\ mon'[instance].last_heartbeat = 0
       /\ (call[c].op = "send_heartbeat" /\ call'[c] = Idle) =>
            /\ ret'.op = "send_heartbeat"
            /\ ret'.ok
            /\ mon'[call[c].m].failure_count = 0

C11_SendHeartbeatNeedsRunning == [][C11_Step]_vars

\* send_heartbeat() has just returned false on a Monitor that was started
\* and stopped, whose last heartbeat and failure count are as they were.
C11_Witness ==
  /\ ret.op = "send_heartbeat"
  /\ ~ret.ok
  /\ instance # NoInstance
  /\ mon[instance].thread # NoThread
  /\ ~mon[instance].is_running
  /\ mon[instance].last_heartbeat > 0
  /\ mon[instance].failure_count > 0

\* -------------------------------------------------------------------- C12
\* C12: get_watchdog_status() always returns a dictionary and changes
\* nothing.  With no instance it returns at once {enabled false, running
\* false, failure_count 0, last_heartbeat None, max_failures 3, auto_restart
\* true, heartbeat_interval 30}; with an instance it reads the registry's
\* Monitor, and every entry of the dictionary is the value the attribute
\* had when get_status() read it.
C12_Step ==
  /\ ret'.op = "get_watchdog_status" =>
       /\ instance = NoInstance
       /\ call' = call
       /\ ret'.snap =
            [enabled |-> FALSE, running |-> FALSE, failure_count |-> 0,
             last_heartbeat |-> None, max_failures |-> 3,
             auto_restart |-> TRUE, heartbeat_interval |-> 30]
       /\ UNCHANGED <<instance, built, mon, loops, restart_log>>
  /\ \A c \in Callers :
       /\ (call[c] = Idle /\ call'[c].op = "get_status") =>
            /\ call'[c].m = instance
            /\ call'[c].a = 1 <=> mon[instance].is_running
            /\ call'[c].b = mon[instance].failure_count
            /\ UNCHANGED <<instance, built, mon, loops, restart_log>>
       /\ (call[c].op = "get_status" /\ call'[c] = Idle) =>
            /\ ret'.op = "get_status"
            /\ ret'.snap =
                 [enabled |-> mon[call[c].m].enabled,
                  running |-> (call[c].a = 1),
                  failure_count |-> call[c].b,
                  last_heartbeat |-> mon[call[c].m].last_heartbeat,
                  max_failures |-> mon[call[c].m].max_failures,
                  auto_restart |-> mon[call[c].m].auto_restart,
                  heartbeat_interval |-> mon[call[c].m].heartbeat_interval]
            /\ UNCHANGED <<instance, built, mon, loops, restart_log>>

C12_StatusIsPureRead == [][C12_Step]_vars

\* get_watchdog_status() has just returned the fields of a running Monitor
\* that has a heartbeat and a failure counted, read with no heartbeat in
\* between.
C12_Witness ==
  /\ ret.op = "get_status"
  /\ ~ret.torn
  /\ ret.m = instance
  /\ ret.snap.running
  /\ ret.snap.last_heartbeat # None
  /\ ret.snap.failure_count = mon[instance].failure_count
  /\ ret.snap.failure_count > 0

\* -------------------------------------------------------------------- C13
\* C13: at most one polling loop is active per Monitor instance: in every
\* state, at most one live thread runs _monitor_loop of a given Watchdog.
C13_OneLoopPerMonitor ==
  \A m \in Monitors :
    Cardinality({l \in Loops : loops[l].m = m /\ IsAlive(l)}) <= 1

\* -------------------------------------------------------------------- C14
\* C14: failure_count increases only while is_running is true, and the loop
\* escalates only while it is true: no step raises the failure_count of a
\* Monitor, calls _trigger_restart on it or leaves its loop through the
\* escalation path while its is_running is false.
C14_Step ==
  /\ \A m \in Monitors :
       /\ mon'[m].failure_count > mon[m].failure_count => mon[m].is_running
       /\ run_triggers'[m] > run_triggers[m] => mon[m].is_running
  /\ \A l \in Loops :
       (loops[l].pc # "escalated" /\ loops'[l].pc = "escalated") =>
         mon[loops[l].m].is_running

C14_CountsOnlyWhileRunning == [][C14_Step]_vars

\* -------------------------------------------------------------------- C15
\* C15: while no heartbeat has ever been recorded on a Monitor
\* (last_heartbeat is None), its failure_count is 0, none of its loop
\* threads has found a heartbeat stale or left the loop through the
\* escalation path, and _trigger_restart was not called on it.
C15_NoHeartbeatNoCount ==
  \A m \in Monitors :
    (Built(m) /\ mon[m].last_heartbeat = None) =>
      /\ mon[m].failure_count = 0
      /\ run_triggers[m] = 0
      /\ \A l \in Loops : loops[l].m = m => loops[l].pc \notin FoundStale

\* The loop of a running Monitor that never had a heartbeat has just polled
\* and gone to sleep.
C15_Witness ==
  \E l \in Loops :
    LET m == loops[l].m IN
    /\ loops[l].pc = "sleeping"
    /\ loops[l].wake = mon[m].heartbeat_interval
    /\ mon[m].is_running
    /\ mon[m].last_heartbeat = None

\* -------------------------------------------------------------------- C16
\* C16: stop() always returns true; a stop() on a running Monitor sets
\* is_running false and terminates, whether or not the loop exited within
\* the join timeout; and with fair scheduling and no later start() on the
\* instance, every loop thread of a Monitor whose stop() has returned
\* eventually exits.
C16_StopTerminates ==
  /\ [](ret.op = "stop" => (ret.ok /\ ~mon[ret.m].is_running))
  /\ \A c \in Callers : (call[c].op = "stop") ~> (call[c] = Idle)
  /\ \A m \in Monitors :
       (ret.op = "stop" /\ ret.m = m) ~>
         (\A l \in Loops : loops[l].m = m => ~IsAlive(l))

\* stop() has just returned true after its join timed out: the loop thread
\* is still alive.
C16_Witness ==
  /\ ret.op = "stop"
  /\ ret.ok
  /\ ~mon[ret.m].is_running
  /\ mon[ret.m].thread # NoThread
  /\ IsAlive(mon[ret.m].thread)

\* -------------------------------------------------------------------- C17
\* C17: at the threshold test of a tick, a loop whose Monitor has
\* failure_count >= max_failures goes on to _trigger_restart when
\* auto_restart is true, and leaves the loop at once, with no
\* _trigger_restart call and no RestartEvent, when it is false; the loop
\* exits after the trigger; and only a Monitor with auto_restart true ever
\* has _trigger_restart called or a RestartEvent appended.
C17_Step ==
  /\ \A l \in Loops :
       LET m == loops[l].m IN
       /\ (loops[l].pc = "test" /\ loops'[l].pc # "test"
           /\ mon[m].failure_count >= mon[m].max_failures) =>
            IF mon[m].auto_restart
              THEN loops'[l].pc = "trigger"
              ELSE /\ loops'[l].pc = "escalated"
                   /\ UNCHANGED <<restart_log, run_triggers>>
       /\ (loops[l].pc = "trigger" /\ loops'[l].pc # "trigger") =>
            /\ loops'[l].pc = "escalated"
            /\ run_triggers'[m] = run_triggers[m] + 1
  /\ \A m \in Monitors :
       run_triggers'[m] > run_triggers[m] => mon[m].auto_restart
  /\ restart_log' # restart_log =>
       \E l \in Loops :
         /\ loops[l].pc = "trigger"
         /\ loops'[l].pc = "escalated"
         /\ mon[loops[l].m].auto_restart

C17_AutoRestartDecidesTrigger == [][C17_Step]_vars

\* The loop of a Monitor with auto_restart false has left through the
\* escalation path: no trigger was called and the log is empty.
C17_Witness ==
  \E l \in Loops :
    LET m == loops[l].m IN
    /\ loops[l].pc = "escalated"
    /\ Built(m)
    /\ ~mon[m].auto_restart
    /\ mon[m].failure_count >= mon[m].max_failures
    /\ run_triggers[m] = 0
    /\ restart_log = <<>>

\* -------------------------------------------------------------------- C18
\* C18: whenever the registry's Monitor has is_running true (so that
\* start_watchdog() returns it instead of starting a new one), one of its
\* polling loops is alive.
C18_RunningMeansPolling ==
  (instance # NoInstance /\ mon[instance].is_running) =>
    \E l \in Loops : loops[l].m = instance /\ IsAlive(l)

\* -------------------------------------------------------------------- C19
\* C19: failure_count never exceeds max_failures: in every state, every
\* Monitor has 0 <= failure_count <= max_failures.
C19_CountWithinThreshold ==
  \A m \in Monitors :
    Built(m) =>
      (0 <= mon[m].failure_count
       /\ mon[m].failure_count <= mon[m].max_failures)

====
